---- MODULE Spec2Model ----
(***************************************************************************)
(* WxeUI::Cache::FragmentCache (src/src/cache/fragment_cache.{h,cc}):      *)
(* a three-level cache (L1 GPU, L2 RAM, L3 disk) with one LRU index per    *)
(* level, promotion on Get, demotion on Put, an eviction loop in Put and   *)
(* a background worker that removes expired entries.                       *)
(*                                                                         *)
(* A byte vector is modelled by its content identity, its length and the   *)
(* stack of lengths it had before each zlib wrapping: compress2 pushes,    *)
(* uncompress pops and fails on bytes that are no zlib stream.             *)
(* Sizes are bytes, times are seconds of steady_clock.                     *)
(***************************************************************************)
EXTENDS Integers, Sequences, FiniteSets, TLC

VARIABLES
    config,      \* FragmentCache::config_
    cache,       \* level -> (key -> CacheEntry): l1_cache_, l2_cache_, l3_cache_
    lru,         \* level -> keys, most recently used first: l1_lru_, l2_lru_, l3_lru_
    files,       \* the cache directory: file path -> bytes
    stats,       \* FragmentCache::stats_
    now,         \* std::chrono::steady_clock::now(), in seconds
    main_mutex,  \* owner of main_mutex_, or NoThread
    pc,          \* thread -> position in the call it is running
    loc,         \* thread -> the locals of that call
    bg,          \* the background worker: position, expired_keys
    last,        \* the call that returned last, with its result
    order,       \* keys in the order Put was called (scenario runs only)
    ops,         \* number of calls started so far
    prefetch,    \* prefetch_callback_ and the thread Prefetch has detached
    background_running,  \* FragmentCache::background_running_
    held,        \* thread -> the mutexes it holds, in the order it took them
    prog,        \* thread -> the lock and unlock operations its call has yet to make
    index,       \* one LRUCache object: its nodes' next and prev, and cache_map
    accessed     \* key -> when index.Access(key) was last called, and the call made last

\* What Get, Put, Remove, Clear and CleanupExpired never write.
other_vars == <<prefetch, background_running, held, prog>>

vars == <<config, cache, lru, files, stats, now, main_mutex, pc, loc, bg, last, order, ops,
          prefetch, background_running, held, prog, index, accessed>>

\* The LRUCache object that is looked at on its own.
index_vars == <<index, accessed>>

----------------------------------------------------------------------------
\* Bounds of the model.

MaxOps == 3
MaxOpsBackground == 2
MaxTime == 2

\* enum class CacheLevel
L1_GPU == 0
L2_RAM == 1
L3_DISK == 2
Levels == {L1_GPU, L2_RAM, L3_DISK}

Keys == {"", "a"}
Threads == {"t1", "t2"}
NoThread == "none"

\* Byte vectors the callers store.
Payload(b, n) == [body |-> b, len |-> n, wraps |-> <<>>]
NoData == Payload(0, 0)
Payloads == {Payload(1, 1), Payload(2, 8)}

\* FragmentCache::Config of the exploration runs: small caps so that every
\* branch of Put is taken by payloads of 1 and 8 bytes.
SmallConfig == [max_l1_size |-> 10, max_l2_size |-> 10, max_l3_size |-> 5,
                compression_threshold |-> 4, enable_compression |-> TRUE,
                max_age |-> 1]

----------------------------------------------------------------------------
\* zlib, as the code uses it.

\* Length of compress2's output for d.
ZLen(d) == (d.len \div 2) + 1

\* Decompress gives uncompress a buffer of 10 MB.
DecompressMax == 10 * 1024 * 1024

\* FragmentCache::Compress: the compressed bytes, or the data itself when
\* compress2 does not return Z_OK (ok = FALSE).
Compress(d, ok) ==
    IF ok THEN [body |-> d.body, len |-> ZLen(d), wraps |-> <<d.len>> \o d.wraps]
          ELSE d

\* FragmentCache::Decompress: the decompressed bytes, or the input itself
\* when uncompress does not return Z_OK (no zlib stream, or more than 10 MB).
Decompress(c) ==
    IF c.wraps # <<>> /\ Head(c.wraps) <= DecompressMax
       THEN [body |-> c.body, len |-> Head(c.wraps), wraps |-> Tail(c.wraps)]
       ELSE c

----------------------------------------------------------------------------
\* FragmentCache::LRUCache: the list from head (most recent) to tail.

Without(q, key) == SelectSeq(q, LAMBDA x : x # key)

\* LRUCache::Access: move the key's node to the head, or insert one there.
Access(q, key) == <<key>> \o Without(q, key)

\* LRUCache::GetLRU (mutant: the head instead of the tail).
GetLRU_Head(q) == IF q = <<>> THEN "" ELSE q[1]

\* LRUCache::GetLRU: the key before the tail sentinel, "" when empty.
GetLRU(q) == IF q = <<>> THEN "" ELSE q[Len(q)]

\* LRUCache::Remove
LRURemove(q, key) == Without(q, key)

----------------------------------------------------------------------------
\* The cache's shared state as one value, so that calls compose.

State == [cache |-> cache, lru |-> lru, files |-> files, stats |-> stats]

Commit(S) ==
    /\ cache' = S.cache
    /\ lru' = S.lru
    /\ files' = S.files
    /\ stats' = S.stats

Has(S, level, key) == key \in DOMAIN S.cache[level]

\* unordered_map::erase
Erase(m, key) == [k \in (DOMAIN m) \ {key} |-> m[k]]

\* unordered_map::operator[] assignment
Insert(m, key, e) == [k \in (DOMAIN m) \cup {key} |-> IF k = key THEN e ELSE m[k]]

EmptyMap == [k \in {} |-> NoData]

RECURSIVE SumSizes(_, _)
SumSizes(m, ks) ==
    IF ks = {} THEN 0
    ELSE LET k == CHOOSE x \in ks : TRUE
         IN m[k].size + SumSizes(m, ks \ {k})

\* FragmentCache::GetCurrentSize
GetCurrentSize(S, level) == SumSizes(S.cache[level], DOMAIN S.cache[level])

MaxSize(level) ==
    CASE level = L1_GPU -> config.max_l1_size
      [] level = L2_RAM -> config.max_l2_size
      [] level = L3_DISK -> config.max_l3_size

\* FragmentCache::NeedEviction: current_size >= max_size * 0.9.  For the caps
\* used here the double product is exact, so the test is 10*cur >= 9*max.
NeedEviction(S, level) == 10 * GetCurrentSize(S, level) >= 9 * MaxSize(level)

\* FragmentCache::GetFilePath: one file per key (std::hash taken as
\* injective on the keys in use).
GetFilePath(key) == <<"cache", key, ".cache">>

\* FragmentCache::IsExpired: age in whole seconds > max_age.
IsExpired(entry, t) == t - entry.last_access > config.max_age

----------------------------------------------------------------------------
\* FragmentCache::LRUCache as the code builds it: a doubly linked list of
\* nodes between two sentinels, and cache_map from key to node.  A node is
\* named by its role and key; a key has at most one node in cache_map.

MaxIndexOps == 5
IndexKeys == {"", "a", "b"}

head == <<"head", "">>
tail == <<"tail", "">>
Node(key) == <<"node", key>>
NoNode == <<"null", "">>
Nodes == {head, tail} \cup {Node(key) : key \in IndexKeys}

\* LRUCache::LRUCache
EmptyIndex ==
    [next |-> [n \in Nodes |-> IF n = head THEN tail ELSE NoNode],
     prev |-> [n \in Nodes |-> IF n = tail THEN head ELSE NoNode],
     cache_map |-> {}]

NoAccess == [at |-> [key \in IndexKeys |-> 0], clock |-> 0, op |-> "none", key |-> ""]

\* LRUCache::RemoveNode
RemoveNode(ix, node) ==
    LET a == [ix EXCEPT !.next[ix.prev[node]] = ix.next[node]]
    IN [a EXCEPT !.prev[a.next[node]] = a.prev[node]]

\* The four assignments that put a node behind head (Access 36-40,
\* MoveToHead 81-85).
AddToHead(ix, node) ==
    LET a == [ix EXCEPT !.next[node] = ix.next[head]]
        b == [a EXCEPT !.prev[node] = head]
        c == [b EXCEPT !.prev[b.next[head]] = node]
    IN [c EXCEPT !.next[head] = node]

MoveToHead_NoUnlink(ix, node) == AddToHead(ix, node)

\* LRUCache::MoveToHead
MoveToHead(ix, node) == AddToHead(RemoveNode(ix, node), node)

\* LRUCache::Access
ListAccess(ix, key) ==
    IF key \in ix.cache_map
       THEN MoveToHead(ix, Node(key))
       ELSE AddToHead([ix EXCEPT !.cache_map = @ \cup {key}], Node(key))

\* LRUCache::GetLRU
ListGetLRU(ix) == IF ix.prev[tail] = head THEN "" ELSE ix.prev[tail][2]

\* LRUCache::Remove: the erased node is freed.
ListRemove(ix, key) ==
    IF key \in ix.cache_map
       THEN [RemoveNode(ix, Node(key)) EXCEPT !.cache_map = @ \ {key},
                                              !.next[Node(key)] = NoNode,
                                              !.prev[Node(key)] = NoNode]
       ELSE ix

\* LRUCache::Clear: the nodes are dropped with cache_map.
ListClear(ix) == EmptyIndex

\* LRUCache::Size
ListSize(ix) == Cardinality(ix.cache_map)

IndexAccess(key) ==
    /\ accessed.clock < MaxIndexOps
    /\ index' = ListAccess(index, key)
    /\ accessed' = [at |-> [accessed.at EXCEPT ![key] = accessed.clock + 1],
                    clock |-> accessed.clock + 1, op |-> "Access", key |-> key]
    /\ UNCHANGED <<config, cache, lru, files, stats, now, main_mutex, pc, loc, bg, last,
                   order, ops, other_vars>>

IndexRemove(key) ==
    /\ accessed.clock < MaxIndexOps
    /\ index' = ListRemove(index, key)
    /\ accessed' = [at |-> [accessed.at EXCEPT ![key] = 0],
                    clock |-> accessed.clock + 1, op |-> "Remove", key |-> key]
    /\ UNCHANGED <<config, cache, lru, files, stats, now, main_mutex, pc, loc, bg, last,
                   order, ops, other_vars>>

IndexClear ==
    /\ accessed.clock < MaxIndexOps
    /\ index' = ListClear(index)
    /\ accessed' = [at |-> [key \in IndexKeys |-> 0],
                    clock |-> accessed.clock + 1, op |-> "Clear", key |-> ""]
    /\ UNCHANGED <<config, cache, lru, files, stats, now, main_mutex, pc, loc, bg, last,
                   order, ops, other_vars>>

NextIndex ==
    \/ \E key \in IndexKeys : IndexAccess(key)
    \/ \E key \in IndexKeys : IndexRemove(key)
    \/ IndexClear

----------------------------------------------------------------------------
\* The calls of FragmentCache, as functions of the shared state.

\* struct CacheEntry (key, level and creation_time are never read back and
\* are left out); PutToLevel creates an entry with access_count 1.
Entry(d, t, z) ==
    [data |-> d, size |-> d.len, last_access |-> t, access_count |-> 1,
     compressed |-> z]

\* GetFromLevel on a hit: last_access = now, access_count++.
Touch(e, t) ==
    [e EXCEPT !.last_access = t, !.access_count = @ + 1]

\* FragmentCache::LoadFromFile: fails when the file cannot be opened.
LoadFromFile(S, key) ==
    IF GetFilePath(key) \in DOMAIN S.files
       THEN [ok |-> TRUE, data |-> S.files[GetFilePath(key)]]
       ELSE [ok |-> FALSE, data |-> NoData]

\* FragmentCache::GetFromLevel: under the level's mutex, copy the data out and
\* refresh last_access; the disk level reads the file and decompresses.
GetFromLevel(S, key, level, t) ==
    IF ~Has(S, level, key)
       THEN [S |-> S, hit |-> FALSE, data |-> NoData]
    ELSE LET e == S.cache[level][key]
             touched == [S EXCEPT !.cache[level][key] = Touch(e, t)]
         IN IF level # L3_DISK
               THEN [S |-> touched, hit |-> TRUE, data |-> e.data]
            ELSE LET f == LoadFromFile(S, key)
                 IN IF f.ok
                       THEN [S |-> touched, hit |-> TRUE,
                             data |-> IF e.compressed THEN Decompress(f.data) ELSE f.data]
                       ELSE [S |-> S, hit |-> FALSE, data |-> NoData]

\* PutToLevel, lines 430-447: the entry as stored.  compressed is set
\* whenever compression is attempted, whether or not compress2 succeeded.
MakeEntry(data, level, t, compressOk) ==
    IF level = L3_DISK /\ config.enable_compression
          /\ data.len >= config.compression_threshold
       THEN Entry(Compress(data, compressOk), t, TRUE)
       ELSE Entry(data, t, FALSE)

\* PutToLevel, lines 449-477: under the level's mutex, store the entry and
\* touch the LRU index; the disk level then writes the file and, when that
\* fails (saveOk = FALSE), erases the key again and returns false.
PutToLevelInsert(S, key, data, level, t, compressOk, saveOk) ==
    LET e == MakeEntry(data, level, t, compressOk)
        stored == [S EXCEPT !.cache[level] = Insert(@, key, e),
                            !.lru[level] = Access(@, key)]
    IN IF level # L3_DISK
          THEN [S |-> stored, ok |-> TRUE, size |-> e.size]
       ELSE IF saveOk
          THEN [S |-> [stored EXCEPT !.files =
                          Insert(@, GetFilePath(key), e.data)],
                ok |-> TRUE, size |-> e.size]
          ELSE [S |-> [stored EXCEPT !.cache[level] = Erase(@, key),
                                    !.lru[level] = LRURemove(@, key)],
                ok |-> FALSE, size |-> e.size]

\* PutToLevel, lines 479-480: the counters, after the mutex is released.
PutToLevelStats(S, size) ==
    [S EXCEPT !.stats.total_size = @ + size, !.stats.entry_count = @ + 1]

\* FragmentCache::PutToLevel
PutToLevel(S, key, data, level, t, compressOk, saveOk) ==
    LET r == PutToLevelInsert(S, key, data, level, t, compressOk, saveOk)
    IN IF r.ok THEN [S |-> PutToLevelStats(r.S, r.size), ok |-> TRUE]
               ELSE [S |-> r.S, ok |-> FALSE]

\* Remove, one of its three blocks: erase the key from one level.
RemoveFromLevel(S, key, level) ==
    IF ~Has(S, level, key) THEN S
    ELSE LET e == S.cache[level][key]
             a == [S EXCEPT !.stats.total_size = @ - e.size,
                            !.cache[level] = Erase(@, key),
                            !.lru[level] = LRURemove(@, key)]
         IN IF level = L3_DISK
               THEN [a EXCEPT !.files = Erase(@, GetFilePath(key))]
               ELSE a

\* Remove with entry_count decremented whether or not a level held the key
\* (mutant of Remove).
Remove_AlwaysCounts(S, key) ==
    LET removed == \E level \in Levels : Has(S, level, key)
        s1 == RemoveFromLevel(S, key, L1_GPU)
        s2 == RemoveFromLevel(s1, key, L2_RAM)
        s3 == RemoveFromLevel(s2, key, L3_DISK)
    IN [S |-> [s3 EXCEPT !.stats.entry_count = @ - 1], removed |-> removed]

\* Remove that stops at the first level holding the key (mutant of Remove).
Remove_FirstLevel(S, key) ==
    LET removed == \E level \in Levels : Has(S, level, key)
        first == CHOOSE level \in Levels :
                    /\ Has(S, level, key)
                    /\ \A other \in Levels : Has(S, other, key) => level <= other
    IN [S |-> IF removed
                 THEN [RemoveFromLevel(S, key, first) EXCEPT !.stats.entry_count = @ - 1]
                 ELSE S,
        removed |-> removed]

\* FragmentCache::Remove: all three levels, entry_count decremented once.
Remove(S, key) ==
    LET removed == \E level \in Levels : Has(S, level, key)
        s1 == RemoveFromLevel(S, key, L1_GPU)
        s2 == RemoveFromLevel(s1, key, L2_RAM)
        s3 == RemoveFromLevel(s2, key, L3_DISK)
    IN [S |-> IF removed THEN [s3 EXCEPT !.stats.entry_count = @ - 1] ELSE s3,
        removed |-> removed]

\* FragmentCache::EvictLRU: Remove the key GetLRU names, unless it is empty.
EvictLRU(S, level) ==
    LET lru_key == GetLRU(S.lru[level])
    IN IF lru_key # ""
          THEN [Remove(S, lru_key).S EXCEPT !.stats.evictions = @ + 1]
          ELSE S

\* FragmentCache::Clear: removeOk = FALSE is remove_all throwing, which the
\* catch swallows.
Clear(S, removeOk) ==
    [S EXCEPT !.cache = [l \in Levels |-> EmptyMap],
              !.lru = [l \in Levels |-> <<>>],
              !.files = IF removeOk THEN EmptyMap ELSE @,
              !.stats.total_size = 0,
              !.stats.entry_count = 0]

\* Promotion left out (mutant of Promote).
Promote_Never(S, key, data, to, t) == S

Promote_Below(S, key, data, to, t) ==
    IF GetCurrentSize(S, to) + data.len < MaxSize(to)
       THEN PutToLevel(S, key, data, to, t, TRUE, TRUE).S
       ELSE S

\* Get, lines 128 and 139: promote when the faster level has room.
Promote(S, key, data, to, t) ==
    IF GetCurrentSize(S, to) + data.len <= MaxSize(to)
       THEN PutToLevel(S, key, data, to, t, TRUE, TRUE).S
       ELSE S

Hit(S, level, key) ==
    [S EXCEPT !.stats.hits = @ + 1, !.lru[level] = Access(@, key)]

\* FragmentCache::Get (level: the level that answered, for the record of
\* the call).
Get(S, key, t) ==
    LET g1 == GetFromLevel(S, key, L1_GPU, t)
        g2 == GetFromLevel(S, key, L2_RAM, t)
        g3 == GetFromLevel(S, key, L3_DISK, t)
    IN IF g1.hit THEN
          [S |-> Hit(g1.S, L1_GPU, key), ret |-> TRUE, data |-> g1.data, level |-> L1_GPU]
       ELSE IF g2.hit THEN
          [S |-> Promote(Hit(g2.S, L2_RAM, key), key, g2.data, L1_GPU, t),
           ret |-> TRUE, data |-> g2.data, level |-> L2_RAM]
       ELSE IF g3.hit THEN
          [S |-> Promote(Hit(g3.S, L3_DISK, key), key, g3.data, L2_RAM, t),
           ret |-> TRUE, data |-> g3.data, level |-> L3_DISK]
       ELSE
          [S |-> [S EXCEPT !.stats.misses = @ + 1], ret |-> FALSE, data |-> NoData,
           level |-> L3_DISK]

\* No demotion at all (mutant of TargetLevel).
TargetLevel_Preferred(S, data, preferred_level) == preferred_level

\* Only the first demotion is made (mutant of TargetLevel).
TargetLevel_NoCascade(S, data, preferred_level) ==
    IF preferred_level = L1_GPU
          /\ GetCurrentSize(S, L1_GPU) + data.len > config.max_l1_size
       THEN L2_RAM ELSE preferred_level

\* Put, lines 153-163: the level Put writes to.
TargetLevel(S, data, preferred_level) ==
    LET t1 == IF preferred_level = L1_GPU
                 /\ GetCurrentSize(S, L1_GPU) + data.len > config.max_l1_size
              THEN L2_RAM ELSE preferred_level
    IN IF t1 = L2_RAM
          /\ GetCurrentSize(S, L2_RAM) + data.len > config.max_l2_size
       THEN L3_DISK ELSE t1

\* CleanupExpired, lines 608-625: the expired keys of L2, then of L3.
SetToSeq(s) ==
    CHOOSE q \in [1..Cardinality(s) -> s] : \A i, j \in 1..Cardinality(s) : i # j => q[i] # q[j]

ExpiredKeys(S, level, t) ==
    {k \in DOMAIN S.cache[level] : IsExpired(S.cache[level][k], t)}

RECURSIVE RemoveAll(_, _)
RemoveAll(S, keys) ==
    IF keys = <<>> THEN S ELSE RemoveAll(Remove(S, Head(keys)).S, Tail(keys))

\* FragmentCache::CleanupExpired
CleanupExpired(S, t) ==
    RemoveAll(S, SetToSeq(ExpiredKeys(S, L2_RAM, t)) \o SetToSeq(ExpiredKeys(S, L3_DISK, t)))

----------------------------------------------------------------------------
\* Initial state: FragmentCache::FragmentCache.

NoCall == [op |-> "none", key |-> "", data |-> NoData, ret |-> FALSE, level |-> L2_RAM, at |-> 0]
NoLocals == [key |-> "", data |-> NoData, preferred_level |-> L2_RAM, target_level |-> L2_RAM]

\* No loader registered, no prefetch thread running.  keys are the keys the
\* thread has yet to handle, data is what the loader returned for the first
\* of them, results is what became of the keys handled so far.
NoPrefetch == [callback |-> FALSE, pc |-> "done", keys |-> <<>>, data |-> NoData, results |-> <<>>]

\* The threads whose locking is followed: two callers and the worker.
LockThreads == Threads \cup {"worker"}

InitWith(c) ==
    /\ config = c
    /\ cache = [l \in Levels |-> EmptyMap]
    /\ lru = [l \in Levels |-> <<>>]
    /\ files = EmptyMap
    /\ stats = [hits |-> 0, misses |-> 0, total_size |-> 0, entry_count |-> 0, evictions |-> 0]
    /\ now = 0
    /\ main_mutex = NoThread
    /\ pc = [t \in Threads |-> "idle"]
    /\ loc = [t \in Threads |-> NoLocals]
    /\ bg = [pc |-> "sleep", expired_keys |-> <<>>]
    /\ last = NoCall
    /\ order = <<>>
    /\ ops = 0
    /\ prefetch = NoPrefetch
    /\ background_running = TRUE
    /\ held = [t \in LockThreads |-> <<>>]
    /\ prog = [t \in LockThreads |-> <<>>]
    /\ index = EmptyIndex
    /\ accessed = NoAccess

Init == InitWith(SmallConfig)

\* A configuration whose L1 a 1-byte entry and an 8-byte payload fill exactly.
PromotionConfig == [SmallConfig EXCEPT !.max_l1_size = 9]
InitPromotion == InitWith(PromotionConfig)

CanStart(t) == pc[t] = "idle" /\ ops < MaxOps

Returned(op, key, data, ret, level) ==
    last' = [op |-> op, key |-> key, data |-> data, ret |-> ret, level |-> level, at |-> now]

----------------------------------------------------------------------------
\* Put, step by step: it holds main_mutex_ from entry to return.

\* Put, lines 150-163: lock main_mutex_ and choose the target level.
PutBegin(t, key, data, preferred_level) ==
    /\ CanStart(t)
    /\ main_mutex = NoThread
    /\ main_mutex' = t
    /\ pc' = [pc EXCEPT ![t] = "put_loop"]
    /\ loc' = [loc EXCEPT ![t] = [key |-> key, data |-> data,
                                  preferred_level |-> preferred_level,
                                  target_level |-> TargetLevel(State, data, preferred_level)]]
    /\ ops' = ops + 1
    /\ UNCHANGED <<config, index_vars, other_vars, cache, lru, files, stats, now, bg, last, order>>

\* Put, lines 166-168: one turn of while (NeedEviction) EvictLRU.  The record
\* of the call keeps the evicted key and the last_access its entry had.
PutEvict(t) ==
    /\ pc[t] = "put_loop"
    /\ NeedEviction(State, loc[t].target_level)
    /\ Commit(EvictLRU(State, loc[t].target_level))
    /\ LET level == loc[t].target_level
           lru_key == GetLRU(lru[level])
       IN IF EvictLRU(State, level) = State
             THEN UNCHANGED last
             ELSE last' = [op |-> "Evict", key |-> lru_key, data |-> NoData,
                           ret |-> Has(State, level, lru_key), level |-> level,
                           at |-> IF Has(State, level, lru_key)
                                     THEN cache[level][lru_key].last_access ELSE now]
    /\ UNCHANGED <<config, index_vars, other_vars, now, main_mutex, pc, loc, bg, order, ops>>

\* Put, line 170: the loop has ended; PutToLevel and return its result.
PutWrite(t, compressOk, saveOk) ==
    /\ pc[t] = "put_loop"
    /\ ~NeedEviction(State, loc[t].target_level)
    /\ loc[t].target_level # L3_DISK => compressOk /\ saveOk
    /\ LET r == PutToLevel(State, loc[t].key, loc[t].data, loc[t].target_level,
                           now, compressOk, saveOk)
       IN /\ Commit(r.S)
          /\ Returned("Put", loc[t].key, loc[t].data, r.ok, loc[t].target_level)
    /\ main_mutex' = NoThread
    /\ pc' = [pc EXCEPT ![t] = "idle"]
    /\ loc' = [loc EXCEPT ![t] = NoLocals]
    /\ UNCHANGED <<config, index_vars, other_vars, now, bg, order, ops>>

----------------------------------------------------------------------------
\* The other calls, each run to completion by one caller.

GetCall(t, key) ==
    /\ CanStart(t)
    /\ LET r == Get(State, key, now)
       IN /\ Commit(r.S)
          /\ Returned("Get", key, r.data, r.ret, r.level)
    /\ ops' = ops + 1
    /\ UNCHANGED <<config, index_vars, other_vars, now, main_mutex, pc, loc, bg, order>>

RemoveCall(t, key) ==
    /\ CanStart(t)
    /\ main_mutex = NoThread
    /\ LET r == Remove(State, key)
       IN /\ Commit(r.S)
          /\ Returned("Remove", key, NoData, r.removed, L1_GPU)
    /\ ops' = ops + 1
    /\ UNCHANGED <<config, index_vars, other_vars, now, main_mutex, pc, loc, bg, order>>

ClearCall(t, removeOk) ==
    /\ CanStart(t)
    /\ main_mutex = NoThread
    /\ Commit(Clear(State, removeOk))
    /\ Returned("Clear", "", NoData, removeOk, L1_GPU)
    /\ ops' = ops + 1
    /\ UNCHANGED <<config, index_vars, other_vars, now, main_mutex, pc, loc, bg, order>>

\* steady_clock advances.
Tick ==
    /\ now < MaxTime
    /\ now' = now + 1
    /\ UNCHANGED <<config, index_vars, other_vars, cache, lru, files, stats, main_mutex, pc, loc, bg, last, order, ops>>

\* BackgroundWorker, one turn of its loop run between the callers' calls:
\* CleanupExpired, whose Remove calls take main_mutex_.
Sweep ==
    /\ bg.pc = "sleep"
    /\ main_mutex = NoThread
    /\ Commit(CleanupExpired(State, now))
    /\ IF CleanupExpired(State, now) = State
          THEN UNCHANGED last
          ELSE Returned("Sweep", "", NoData, TRUE, L2_RAM)
    /\ UNCHANGED <<config, index_vars, other_vars, now, main_mutex, pc, loc, bg, order, ops>>

\* One caller and the background worker.
Next ==
    \/ \E key \in Keys, data \in Payloads, level \in Levels : PutBegin("t1", key, data, level)
    \/ PutEvict("t1")
    \/ \E compressOk, saveOk \in BOOLEAN : PutWrite("t1", compressOk, saveOk)
    \/ \E key \in Keys : GetCall("t1", key)
    \/ \E key \in Keys : RemoveCall("t1", key)
    \/ \E removeOk \in BOOLEAN : ClearCall("t1", removeOk)
    \/ Tick
    \/ Sweep

Spec == Init /\ [][Next]_vars

----------------------------------------------------------------------------
\* Get, step by step.  Get takes no main_mutex_; each step is one critical
\* section of a level's mutex or of an LRU index's own mutex.
\* loc[t].target_level is the level Get is looking at.

GetBegin(t, key) ==
    /\ CanStart(t)
    /\ pc' = [pc EXCEPT ![t] = "get_find"]
    /\ loc' = [loc EXCEPT ![t] = [NoLocals EXCEPT !.key = key, !.target_level = L1_GPU]]
    /\ ops' = ops + 1
    /\ UNCHANGED <<config, index_vars, other_vars, cache, lru, files, stats, now, main_mutex, bg, last, order>>

\* Get, lines 117, 124, 135 and 145-146: GetFromLevel on the next level; after
\* a miss on the last level, count the miss and return false.
GetFind(t) ==
    /\ pc[t] = "get_find"
    /\ LET level == loc[t].target_level
           r == GetFromLevel(State, loc[t].key, level, now)
       IN IF r.hit THEN
             /\ Commit(r.S)
             /\ pc' = [pc EXCEPT ![t] = "get_hit"]
             /\ loc' = [loc EXCEPT ![t].data = r.data]
             /\ UNCHANGED last
          ELSE IF level # L3_DISK THEN
             /\ loc' = [loc EXCEPT ![t].target_level = level + 1]
             /\ UNCHANGED <<cache, lru, files, stats, pc, last>>
          ELSE
             /\ stats' = [stats EXCEPT !.misses = @ + 1]
             /\ Returned("Get", loc[t].key, NoData, FALSE, L3_DISK)
             /\ pc' = [pc EXCEPT ![t] = "idle"]
             /\ loc' = [loc EXCEPT ![t] = NoLocals]
             /\ UNCHANGED <<cache, lru, files>>
    /\ UNCHANGED <<config, index_vars, other_vars, now, main_mutex, bg, order, ops>>

\* Get, lines 118-120, 125-126 and 136-137: count the hit and touch the
\* level's LRU index, outside the level's mutex; a hit in L1 returns.
GetHit(t) ==
    /\ pc[t] = "get_hit"
    /\ Commit(Hit(State, loc[t].target_level, loc[t].key))
    /\ IF loc[t].target_level = L1_GPU
          THEN /\ Returned("Get", loc[t].key, loc[t].data, TRUE, L1_GPU)
               /\ pc' = [pc EXCEPT ![t] = "idle"]
               /\ loc' = [loc EXCEPT ![t] = NoLocals]
          ELSE /\ pc' = [pc EXCEPT ![t] = "get_size"]
               /\ UNCHANGED <<loc, last>>
    /\ UNCHANGED <<config, index_vars, other_vars, now, main_mutex, bg, order, ops>>

\* Get, lines 128 and 139: GetCurrentSize of the faster level, and the test.
GetSize(t) ==
    /\ pc[t] = "get_size"
    /\ LET to == loc[t].target_level - 1
       IN IF GetCurrentSize(State, to) + loc[t].data.len <= MaxSize(to)
             THEN /\ pc' = [pc EXCEPT ![t] = "get_put"]
                  /\ UNCHANGED <<loc, last>>
             ELSE /\ Returned("Get", loc[t].key, loc[t].data, TRUE, loc[t].target_level)
                  /\ pc' = [pc EXCEPT ![t] = "idle"]
                  /\ loc' = [loc EXCEPT ![t] = NoLocals]
    /\ UNCHANGED <<config, index_vars, other_vars, cache, lru, files, stats, now, main_mutex, bg, order, ops>>

\* Get, lines 129 and 140: PutToLevel up to the release of the level's mutex.
GetPut(t) ==
    /\ pc[t] = "get_put"
    /\ Commit(PutToLevelInsert(State, loc[t].key, loc[t].data,
                               loc[t].target_level - 1, now, TRUE, TRUE).S)
    /\ pc' = [pc EXCEPT ![t] = "get_stats"]
    /\ UNCHANGED <<config, index_vars, other_vars, now, main_mutex, loc, bg, last, order, ops>>

\* PutToLevel's counters, then Get returns true.
GetStats(t) ==
    /\ pc[t] = "get_stats"
    /\ Commit(PutToLevelStats(State, loc[t].data.len))
    /\ Returned("Get", loc[t].key, loc[t].data, TRUE, loc[t].target_level)
    /\ pc' = [pc EXCEPT ![t] = "idle"]
    /\ loc' = [loc EXCEPT ![t] = NoLocals]
    /\ UNCHANGED <<config, index_vars, other_vars, now, main_mutex, bg, order, ops>>

\* Callers on two threads.
NextConcurrent ==
    \E t \in Threads :
        \/ \E key \in Keys, data \in Payloads, level \in Levels : PutBegin(t, key, data, level)
        \/ PutEvict(t)
        \/ \E compressOk, saveOk \in BOOLEAN : PutWrite(t, compressOk, saveOk)
        \/ \E key \in Keys : GetBegin(t, key)
        \/ GetFind(t)
        \/ GetHit(t)
        \/ GetSize(t)
        \/ GetPut(t)
        \/ GetStats(t)
        \/ \E key \in Keys : RemoveCall(t, key)
        \/ \E removeOk \in BOOLEAN : ClearCall(t, removeOk)

SpecConcurrent == Init /\ [][NextConcurrent]_vars

----------------------------------------------------------------------------
\* The background worker, step by step.

\* BackgroundWorker, line 593-595: the sleep is over (or the thread has just
\* started) and background_running_ is set: enter CleanupExpired.
BgWake ==
    /\ bg.pc = "sleep"
    /\ background_running
    /\ bg' = [pc |-> "scan_l2", expired_keys |-> <<>>]
    /\ UNCHANGED <<config, index_vars, other_vars, cache, lru, files, stats, now, main_mutex, pc, loc, last, order, ops>>

\* CleanupExpired, lines 608-615: collect the expired keys of L2.
BgScanL2 ==
    /\ bg.pc = "scan_l2"
    /\ bg' = [pc |-> "scan_l3",
              expired_keys |-> bg.expired_keys \o SetToSeq(ExpiredKeys(State, L2_RAM, now))]
    /\ UNCHANGED <<config, index_vars, other_vars, cache, lru, files, stats, now, main_mutex, pc, loc, last, order, ops>>

\* CleanupExpired, lines 618-625: collect the expired keys of L3.
BgScanL3 ==
    /\ bg.pc = "scan_l3"
    /\ bg' = [pc |-> "remove",
              expired_keys |-> bg.expired_keys \o SetToSeq(ExpiredKeys(State, L3_DISK, now))]
    /\ UNCHANGED <<config, index_vars, other_vars, cache, lru, files, stats, now, main_mutex, pc, loc, last, order, ops>>

\* CleanupExpired, lines 628-630: Remove the next collected key; Remove
\* waits for main_mutex_.
BgRemove ==
    /\ bg.pc = "remove"
    /\ bg.expired_keys # <<>>
    /\ main_mutex = NoThread
    /\ LET r == Remove(State, Head(bg.expired_keys))
       IN /\ Commit(r.S)
          /\ IF r.removed THEN Returned("Sweep", "", NoData, TRUE, L2_RAM)
                          ELSE UNCHANGED last
    /\ bg' = [bg EXCEPT !.expired_keys = Tail(@)]
    /\ UNCHANGED <<config, index_vars, other_vars, now, main_mutex, pc, loc, order, ops>>

\* BackgroundWorker, line 596: CleanupExpired has returned; sleep.
BgSleep ==
    /\ bg.pc = "remove"
    /\ bg.expired_keys = <<>>
    /\ bg' = [bg EXCEPT !.pc = "sleep"]
    /\ UNCHANGED <<config, index_vars, other_vars, cache, lru, files, stats, now, main_mutex, pc, loc, last, order, ops>>

BgStep == BgWake \/ BgScanL2 \/ BgScanL3 \/ BgRemove \/ BgSleep

PutStep(t) == PutEvict(t) \/ \E compressOk, saveOk \in BOOLEAN : PutWrite(t, compressOk, saveOk)

\* One caller, and the background worker on its own thread.
NextBackground ==
    \/ \E key \in Keys, data \in Payloads, level \in Levels :
          ops < MaxOpsBackground /\ PutBegin("t1", key, data, level)
    \/ PutEvict("t1")
    \/ \E compressOk, saveOk \in BOOLEAN : PutWrite("t1", compressOk, saveOk)
    \/ \E key \in Keys : ops < MaxOpsBackground /\ GetCall("t1", key)
    \/ Tick
    \/ BgWake
    \/ BgScanL2
    \/ BgScanL3
    \/ BgRemove
    \/ BgSleep

\* A thread that is inside a call keeps running, and so does the worker;
\* nothing obliges a caller to start a call or the clock to advance.
SpecBackground ==
    /\ Init
    /\ [][NextBackground]_vars
    /\ WF_vars(PutStep("t1"))
    /\ WF_vars(BgStep)

----------------------------------------------------------------------------
\* Put as one call, for runs in which calls do not overlap.

\* Put, lines 166-168: the loop run to its end, or to a turn that changes
\* nothing (from which it never leaves).
RECURSIVE EvictLoop(_, _)
EvictLoop(S, level) ==
    IF ~NeedEviction(S, level) \/ EvictLRU(S, level) = S
       THEN S
       ELSE EvictLoop(EvictLRU(S, level), level)

\* FragmentCache::Put
Put(S, key, data, preferred_level, t, compressOk, saveOk) ==
    LET target_level == TargetLevel(S, data, preferred_level)
        evicted == EvictLoop(S, target_level)
        r == PutToLevel(evicted, key, data, target_level, t, compressOk, saveOk)
    IN [S |-> r.S, ret |-> r.ok, level |-> target_level,
        returns |-> ~NeedEviction(evicted, target_level)]

\* Scenario: Fast capacity 1000 bytes, five distinct 300-byte entries put
\* one after another with preferred level L1_GPU.  The other caps only
\* have to hold what Fast turns away.
ScenarioConfig == [max_l1_size |-> 1000, max_l2_size |-> 1000000, max_l3_size |-> 1000000,
                   compression_threshold |-> 64 * 1024, enable_compression |-> TRUE,
                   max_age |-> 3600]
ScenarioKeys == {"e1", "e2", "e3", "e4", "e5"}
ScenarioData(key) ==
    Payload(CHOOSE i \in 1..5 : key = <<"e1", "e2", "e3", "e4", "e5">>[i], 300)

InitScenario == InitWith(ScenarioConfig)

\* The next Put of the scenario, for a key not put yet.
ScenarioPut(key) ==
    /\ pc["t1"] = "idle"
    /\ main_mutex = NoThread
    /\ \A i \in 1..Len(order) : order[i] # key
    /\ LET r == Put(State, key, ScenarioData(key), L1_GPU, now, TRUE, TRUE)
       IN /\ r.returns
          /\ Commit(r.S)
          /\ Returned("Put", key, ScenarioData(key), r.ret, r.level)
    /\ order' = Append(order, key)
    /\ ops' = ops + 1
    /\ UNCHANGED <<config, index_vars, other_vars, now, main_mutex, pc, loc, bg>>

NextScenario == \E key \in ScenarioKeys : ScenarioPut(key)

SpecScenario == InitScenario /\ [][NextScenario]_vars

----------------------------------------------------------------------------
\* Prefetch.  The thread Prefetch detaches is "t2" while it is inside Put.
\* prefetch_enabled_ is true from construction on and never written.

MaxOpsPrefetch == 2

\* The batches callers pass to Prefetch.
Batches == {<<"a">>, <<"", "a">>}

\* What prefetch_callback_ does for a key: return bytes, return no bytes,
\* or throw.
LoaderResults == {"data", "empty", "throws"}

\* FragmentCache::SetPrefetchCallback
SetPrefetchCallback ==
    /\ ~prefetch.callback
    /\ prefetch' = [prefetch EXCEPT !.callback = TRUE]
    /\ UNCHANGED <<config, index_vars, cache, lru, files, stats, now, main_mutex, pc, loc, bg, last,
                   order, ops, background_running, held, prog>>

\* Prefetch, lines 256-261 and 276: return at once without a loader, else
\* detach the thread that handles the keys (one batch at a time here).
PrefetchCall(t, keys) ==
    /\ CanStart(t)
    /\ prefetch.pc = "done"
    /\ prefetch' = IF prefetch.callback
                      THEN [prefetch EXCEPT !.pc = "get", !.keys = keys, !.results = <<>>]
                      ELSE prefetch
    /\ last' = [op |-> "Prefetch", key |-> "", data |-> NoData, ret |-> prefetch.callback,
                level |-> L2_RAM, at |-> now]
    /\ ops' = ops + 1
    /\ UNCHANGED <<config, index_vars, cache, lru, files, stats, now, main_mutex, pc, loc, bg,
                   order, background_running, held, prog>>

\* Prefetch, lines 262-264: Get(key, dummy) for the next key; on a hit the
\* key is done.
PrefetchGet ==
    /\ prefetch.pc = "get"
    /\ prefetch.keys # <<>>
    /\ LET r == Get(State, Head(prefetch.keys), now)
       IN /\ Commit(r.S)
          /\ prefetch' = IF r.ret
                            THEN [prefetch EXCEPT !.keys = Tail(@),
                                                  !.results = Append(@, "hit")]
                            ELSE [prefetch EXCEPT !.pc = "load"]
    /\ UNCHANGED <<config, index_vars, now, main_mutex, pc, loc, bg, last, order, ops,
                   background_running, held, prog>>

\* The loader's exception leaves the loop, and the batch with it (mutant
\* of PrefetchLoad).
PrefetchLoad_ThrowEndsBatch(result, data) ==
    /\ prefetch.pc = "load"
    /\ prefetch' = CASE result = "data" -> [prefetch EXCEPT !.pc = "put", !.data = data]
                      [] result = "empty" -> [prefetch EXCEPT !.pc = "get", !.keys = Tail(@),
                                                !.results = Append(@, result)]
                      [] OTHER -> [prefetch EXCEPT !.pc = "get", !.keys = <<>>,
                                                   !.results = Append(@, result)]
    /\ UNCHANGED <<config, index_vars, cache, lru, files, stats, now, main_mutex, pc, loc, bg, last,
                   order, ops, background_running, held, prog>>

\* Prefetch, lines 266-273: call the loader; bytes go on to Put, no bytes
\* or an exception (caught inside the loop) end the key.
PrefetchLoad(result, data) ==
    /\ prefetch.pc = "load"
    /\ prefetch' = IF result = "data"
                      THEN [prefetch EXCEPT !.pc = "put", !.data = data]
                      ELSE [prefetch EXCEPT !.pc = "get", !.keys = Tail(@),
                                            !.results = Append(@, result)]
    /\ UNCHANGED <<config, index_vars, cache, lru, files, stats, now, main_mutex, pc, loc, bg, last,
                   order, ops, background_running, held, prog>>

\* Prefetch, line 269: Put(key, data) with the default preferred level;
\* Put, lines 150-163.
PrefetchPutBegin ==
    /\ prefetch.pc = "put"
    /\ pc["t2"] = "idle"
    /\ main_mutex = NoThread
    /\ main_mutex' = "t2"
    /\ pc' = [pc EXCEPT !["t2"] = "put_loop"]
    /\ loc' = [loc EXCEPT !["t2"] = [key |-> Head(prefetch.keys), data |-> prefetch.data,
                                     preferred_level |-> L2_RAM,
                                     target_level |-> TargetLevel(State, prefetch.data, L2_RAM)]]
    /\ prefetch' = [prefetch EXCEPT !.pc = "put_wait"]
    /\ UNCHANGED <<config, index_vars, cache, lru, files, stats, now, bg, last, order, ops,
                   background_running, held, prog>>

\* Prefetch, lines 269-275: Put has returned, whatever its result; next key.
PrefetchPutEnd ==
    /\ prefetch.pc = "put_wait"
    /\ pc["t2"] = "idle"
    /\ prefetch' = [prefetch EXCEPT !.pc = "get", !.keys = Tail(@), !.data = NoData,
                                    !.results = Append(@, "put")]
    /\ UNCHANGED <<config, index_vars, cache, lru, files, stats, now, main_mutex, pc, loc, bg, last,
                   order, ops, background_running, held, prog>>

\* Prefetch, line 275: the loop is over and the thread ends.
PrefetchEnd ==
    /\ prefetch.pc = "get"
    /\ prefetch.keys = <<>>
    /\ prefetch' = [prefetch EXCEPT !.pc = "done"]
    /\ UNCHANGED <<config, index_vars, cache, lru, files, stats, now, main_mutex, pc, loc, bg, last,
                   order, ops, background_running, held, prog>>

\* One caller, and the thread of its Prefetch calls.
NextPrefetch ==
    \/ \E key \in Keys, data \in Payloads, level \in Levels :
          ops < MaxOpsPrefetch /\ PutBegin("t1", key, data, level)
    \/ \E t \in Threads : PutEvict(t)
    \/ \E t \in Threads : \E compressOk, saveOk \in BOOLEAN : PutWrite(t, compressOk, saveOk)
    \/ \E key \in Keys : ops < MaxOpsPrefetch /\ GetCall("t1", key)
    \/ SetPrefetchCallback
    \/ \E keys \in Batches : ops < MaxOpsPrefetch /\ PrefetchCall("t1", keys)
    \/ PrefetchGet
    \/ \E result \in LoaderResults, data \in Payloads : PrefetchLoad(result, data)
    \/ PrefetchPutBegin
    \/ PrefetchPutEnd
    \/ PrefetchEnd

SpecPrefetch == Init /\ [][NextPrefetch]_vars

----------------------------------------------------------------------------
\* The end of the worker: ~FragmentCache calls StopBackgroundTasks.

MaxOpsLifecycle == 2

\* Byte vectors of the lifecycle runs: 9 bytes bring a level of cap 10 to
\* the 90% at which Put evicts.
LifecyclePayloads == {Payload(1, 1), Payload(3, 9)}

\* BackgroundWorker, line 593: the sleep is over and background_running_ is
\* false: the loop ends and the thread with it.
BgExit ==
    /\ bg.pc = "sleep"
    /\ ~background_running
    /\ bg' = [bg EXCEPT !.pc = "stopped"]
    /\ UNCHANGED <<config, index_vars, cache, lru, files, stats, now, main_mutex, pc, loc, last, order,
                   ops, prefetch, background_running, held, prog>>

\* StopBackgroundTasks, line 586, called by the destructor on a thread
\* that is in no other call.
StopBegin(t) ==
    /\ pc[t] = "idle"
    /\ background_running
    /\ background_running' = FALSE
    /\ pc' = [pc EXCEPT ![t] = "stop_join"]
    /\ UNCHANGED <<config, index_vars, cache, lru, files, stats, now, main_mutex, loc, bg, last, order,
                   ops, prefetch, held, prog>>

\* StopBackgroundTasks, lines 587-589: join returns when the worker's
\* thread has ended.
StopJoin(t) ==
    /\ pc[t] = "stop_join"
    /\ bg.pc = "stopped"
    /\ pc' = [pc EXCEPT ![t] = "stopped"]
    /\ UNCHANGED <<config, index_vars, cache, lru, files, stats, now, main_mutex, loc, bg, last, order,
                   ops, prefetch, background_running, held, prog>>

WorkerStep == BgWake \/ BgScanL2 \/ BgScanL3 \/ BgRemove \/ BgSleep \/ BgExit

PrefetchStep ==
    \/ PrefetchGet
    \/ \E result \in LoaderResults, data \in LifecyclePayloads : PrefetchLoad(result, data)
    \/ PrefetchPutBegin
    \/ PrefetchPutEnd
    \/ PrefetchEnd

\* One owner of the cache, the thread of its Prefetch calls, and the worker.
NextLifecycle ==
    \/ \E key \in Keys, data \in LifecyclePayloads :
          ops < MaxOpsLifecycle /\ PutBegin("t1", key, data, L2_RAM)
    \/ \E t \in Threads : PutEvict(t)
    \/ \E t \in Threads : \E compressOk, saveOk \in BOOLEAN : PutWrite(t, compressOk, saveOk)
    \/ SetPrefetchCallback
    \/ \E keys \in Batches : ops < MaxOpsLifecycle /\ PrefetchCall("t1", keys)
    \/ PrefetchGet
    \/ \E result \in LoaderResults, data \in LifecyclePayloads : PrefetchLoad(result, data)
    \/ PrefetchPutBegin
    \/ PrefetchPutEnd
    \/ PrefetchEnd
    \/ Tick
    \/ BgWake
    \/ BgScanL2
    \/ BgScanL3
    \/ BgRemove
    \/ BgSleep
    \/ BgExit
    \/ StopBegin("t1")
    \/ StopJoin("t1")

\* Every thread that can take a step keeps running: the callers inside Put,
\* the prefetch thread, the worker, and the destructor waiting in join.
SpecLifecycle ==
    /\ Init
    /\ [][NextLifecycle]_vars
    /\ WF_vars(PutStep("t1"))
    /\ WF_vars(PutStep("t2"))
    /\ WF_vars(PrefetchStep)
    /\ WF_vars(WorkerStep)
    /\ WF_vars(StopJoin("t1"))

----------------------------------------------------------------------------
\* Locking.  Each call is reduced to the lock and unlock operations it makes,
\* in order; what the data decides (hit or miss, found or not, one more
\* turn of a loop or none) is chosen freely.  The thread Prefetch detaches
\* makes Get and Put calls like any caller.

main_mutex_ == <<"main_mutex_", 0>>
TierMutex(level) == <<"tier", level>>    \* l1_mutex_, l2_mutex_, l3_mutex_
LruMutex(level) == <<"lru", level>>      \* LRUCache::mutex_ of the level's index
TierMutexes == {TierMutex(level) : level \in Levels}

\* std::lock_guard over a block: lock, the block, unlock.
Guarded(m, block) == <<[op |-> "lock", m |-> m]>> \o block \o <<[op |-> "unlock", m |-> m]>>

\* A while or for loop: its block any number of times.
Loop(block) == <<[op |-> "loop", m |-> block]>>

\* LRUCache::Access, GetLRU, Remove, Clear: each locks the index's mutex.
LruLocks(level) == Guarded(LruMutex(level), <<>>)

GetFromLevelLocks(level) == Guarded(TierMutex(level), <<>>)

GetCurrentSizeLocks(level) == Guarded(TierMutex(level), <<>>)

\* PutToLevel: Access under the level's mutex, and for a failed save on the
\* disk level LRUCache::Remove as well.
PutToLevelLocks(level, saveOk) ==
    Guarded(TierMutex(level),
            LruLocks(level) \o (IF level = L3_DISK /\ ~saveOk THEN LruLocks(level) ELSE <<>>))

\* Remove keeping each level's mutex until it returns (mutant of RemoveLocks).
RemoveLocks_Nested(found) ==
    Guarded(main_mutex_,
        Guarded(TierMutex(L1_GPU),
            (IF L1_GPU \in found THEN LruLocks(L1_GPU) ELSE <<>>) \o
            Guarded(TierMutex(L2_RAM),
                (IF L2_RAM \in found THEN LruLocks(L2_RAM) ELSE <<>>) \o
                Guarded(TierMutex(L3_DISK),
                    IF L3_DISK \in found THEN LruLocks(L3_DISK) ELSE <<>>))))

\* Remove: main_mutex_, then one block per level; found are the levels that
\* hold the key.
RemoveLocks(found) ==
    Guarded(main_mutex_,
        Guarded(TierMutex(L1_GPU), IF L1_GPU \in found THEN LruLocks(L1_GPU) ELSE <<>>) \o
        Guarded(TierMutex(L2_RAM), IF L2_RAM \in found THEN LruLocks(L2_RAM) ELSE <<>>) \o
        Guarded(TierMutex(L3_DISK), IF L3_DISK \in found THEN LruLocks(L3_DISK) ELSE <<>>))

ClearLocks ==
    Guarded(main_mutex_,
        Guarded(TierMutex(L1_GPU), LruLocks(L1_GPU)) \o
        Guarded(TierMutex(L2_RAM), LruLocks(L2_RAM)) \o
        Guarded(TierMutex(L3_DISK), LruLocks(L3_DISK)))

\* EvictLRU: GetLRU, then Remove (which locks main_mutex_ again).
EvictLRULocks(level, found) == LruLocks(level) \o RemoveLocks(found)

\* Put: the size tests, NeedEviction, the eviction loop (EvictLRU and
\* NeedEviction again) and PutToLevel, all under main_mutex_.
PutLocks(preferred_level, target_level, found, saveOk) ==
    Guarded(main_mutex_,
        (IF preferred_level = L1_GPU THEN GetCurrentSizeLocks(L1_GPU) ELSE <<>>) \o
        (IF preferred_level # L3_DISK /\ target_level # L1_GPU
            THEN GetCurrentSizeLocks(L2_RAM) ELSE <<>>) \o
        GetCurrentSizeLocks(target_level) \o
        Loop(EvictLRULocks(target_level, found) \o GetCurrentSizeLocks(target_level)) \o
        PutToLevelLocks(target_level, saveOk))

\* Get: GetFromLevel level by level up to the level that hits (3: none
\* does), Access on its index, the size test and the promotion.
GetLocks(hit, promote) ==
    GetFromLevelLocks(L1_GPU) \o
    (IF hit >= L2_RAM THEN GetFromLevelLocks(L2_RAM) ELSE <<>>) \o
    (IF hit >= L3_DISK THEN GetFromLevelLocks(L3_DISK) ELSE <<>>) \o
    (IF hit \in Levels THEN LruLocks(hit) ELSE <<>>) \o
    (IF hit \in {L2_RAM, L3_DISK}
        THEN GetCurrentSizeLocks(hit - 1) \o
             (IF promote THEN PutToLevelLocks(hit - 1, TRUE) ELSE <<>>)
        ELSE <<>>)

\* CleanupExpired: the two scans, then Remove for each expired key.
CleanupExpiredLocks(found) ==
    Guarded(TierMutex(L2_RAM), <<>>) \o Guarded(TierMutex(L3_DISK), <<>>) \o
    Loop(RemoveLocks(found))

\* Where a removed key is found: nowhere, or in every level.
FoundSets == {{}, Levels}

\* Put's preferred level and the level it ends up writing to.
PutTargets == {pt \in Levels \X Levels : pt[2] >= pt[1]}

CallerPrograms ==
    {GetLocks(hit, promote) : hit \in 0..3, promote \in BOOLEAN}
    \cup UNION {{PutLocks(pt[1], pt[2], found, saveOk) :
                    found \in FoundSets,
                    saveOk \in IF pt[2] = L3_DISK THEN BOOLEAN ELSE {TRUE}} :
                 pt \in PutTargets}
    \cup {RemoveLocks(found) : found \in FoundSets}
    \cup {ClearLocks}

WorkerPrograms == {CleanupExpiredLocks(found) : found \in FoundSets}

Holds(t, m) == \E i \in 1..Len(held[t]) : held[t][i] = m

\* std::mutex::lock returns when no thread holds the mutex; main_mutex_ is
\* recursive and also returns for the thread that holds it.
CanLock(t, m) ==
    /\ \A u \in LockThreads \ {t} : ~Holds(u, m)
    /\ Holds(t, m) => m = main_mutex_

\* The last element equal to m leaves the sequence.
Release(q, m) ==
    LET i == CHOOSE k \in 1..Len(q) : q[k] = m /\ \A j \in (k + 1)..Len(q) : q[j] # m
    IN SubSeq(q, 1, i - 1) \o SubSeq(q, i + 1, Len(q))

\* A thread enters a call.
LockStart(t, p) ==
    /\ prog[t] = <<>>
    /\ prog' = [prog EXCEPT ![t] = p]
    /\ UNCHANGED <<config, index_vars, cache, lru, files, stats, now, main_mutex, pc, loc, bg, last,
                   order, ops, prefetch, background_running, held>>

\* A thread at the head of a loop: one more turn, or the loop is over.
LockLoop(t, again) ==
    /\ prog[t] # <<>>
    /\ Head(prog[t]).op = "loop"
    /\ prog' = [prog EXCEPT ![t] = IF again THEN Head(@).m \o @ ELSE Tail(@)]
    /\ UNCHANGED <<config, index_vars, cache, lru, files, stats, now, main_mutex, pc, loc, bg, last,
                   order, ops, prefetch, background_running, held>>

\* A thread makes the next lock or unlock of its call.
LockStep(t) ==
    /\ prog[t] # <<>>
    /\ Head(prog[t]).op # "loop"
    /\ LET i == Head(prog[t])
       IN IF i.op = "lock"
             THEN /\ CanLock(t, i.m)
                  /\ held' = [held EXCEPT ![t] = Append(@, i.m)]
             ELSE held' = [held EXCEPT ![t] = Release(@, i.m)]
    /\ prog' = [prog EXCEPT ![t] = Tail(@)]
    /\ UNCHANGED <<config, index_vars, cache, lru, files, stats, now, main_mutex, pc, loc, bg, last,
                   order, ops, prefetch, background_running>>

\* Two callers (prefetch threads among them) and the background worker.
NextLocks ==
    \/ \E t \in Threads : \E p \in CallerPrograms : LockStart(t, p)
    \/ \E p \in WorkerPrograms : LockStart("worker", p)
    \/ \E t \in LockThreads : LockStep(t)
    \/ \E t \in LockThreads, again \in BOOLEAN : LockLoop(t, again)

SpecLocks == Init /\ [][NextLocks]_vars

----------------------------------------------------------------------------
\* Properties.

StateNext == [cache |-> cache', lru |-> lru', files |-> files', stats |-> stats']

\* The step is a call that returned just now.
ReturnsNow(op) == last'.op = op /\ last' # last

AllIdle == \A t \in Threads : pc[t] = "idle"

\* C1: a Put(K, B) that returned true, followed immediately by Get(K), makes
\* Get return true with bytes equal to B, from every reachable state.
C1_RoundTrip ==
    [][(last.op = "Put" /\ last.ret /\ ops' = ops + 1 /\ last'.op = "Get"
          /\ last'.key = last.key)
       => (last'.ret /\ last'.data = last.data)]_vars

\* C2: when no call is running, the stored sizes of each of the three levels
\* sum to at most the level's configured cap.
C2_CapacityInvariant ==
    AllIdle => \A level \in Levels : GetCurrentSize(State, level) <= MaxSize(level)

\* C3: whenever no call is inside a level's critical section, the level's
\* LRU index holds exactly the keys of the level's map.
LruKeys(level) == {lru[level][i] : i \in 1..Len(lru[level])}

C3_MapIndexConsistent ==
    \A level \in Levels :
        /\ LruKeys(level) = DOMAIN cache[level]
        /\ Len(lru[level]) = Cardinality(DOMAIN cache[level])

\* C4: every Put call eventually returns.
C4_PutReturns ==
    \A t \in Threads : (pc[t] = "put_loop") ~> (pc[t] = "idle")

ClaimedLevel(S, n, preferred) ==
    LET fastFits == GetCurrentSize(S, L1_GPU) + n <= config.max_l1_size
        mediumFits == GetCurrentSize(S, L2_RAM) + n <= config.max_l2_size
    IN CASE preferred = L3_DISK -> L3_DISK
         [] preferred = L1_GPU /\ fastFits -> L1_GPU
         [] (preferred = L2_RAM \/ (preferred = L1_GPU /\ ~fastFits)) /\ mediumFits -> L2_RAM
         [] OTHER -> L3_DISK

\* C7: Put chooses Fast if preferred is Fast and the bytes fit, else Medium
\* if (preferred is Medium or Fast was rejected) and the bytes fit, else
\* Slow; it writes the entry into that level and no other, and returns the
\* success of that write.
C7_TierSelection ==
    [][\A t \in Threads :
         /\ (pc[t] = "idle" /\ pc'[t] = "put_loop") =>
               loc'[t].target_level =
                  ClaimedLevel(State, loc'[t].data.len, loc'[t].preferred_level)
         /\ (pc[t] = "put_loop" /\ pc'[t] = "idle") =>
               LET level == loc[t].target_level
                   key == loc[t].key
               IN /\ \A other \in Levels \ {level} : cache'[other] = cache[other]
                  /\ last'.op = "Put" /\ last'.level = level
                  /\ last'.ret <=> /\ key \in DOMAIN cache'[level]
                                   /\ cache'[level][key].last_access = now
                                   /\ GetFromLevel(StateNext, key, level, now).data = loc[t].data
                  /\ ~last'.ret => key \notin DOMAIN cache'[level]]_vars

\* C7 witness: a Put preferring Fast was demoted twice and has written its
\* entry to Slow.
C7_Witness ==
    /\ last.op = "Put" /\ last.ret /\ last.level = L3_DISK
    /\ last.key \in DOMAIN cache[L3_DISK]
    /\ GetCurrentSize(State, L1_GPU) + last.data.len > config.max_l1_size
    /\ GetCurrentSize(State, L2_RAM) + last.data.len > config.max_l2_size

\* C8: a Get(K) that returns true for a K resident only in Slow, while
\* Medium's bytes plus the decompressed size fit max_l2_size, leaves K in
\* Medium with the bytes Get returned, retrievable from Medium.
C8_SlowToMediumPromotion ==
    [][(/\ ops' = ops + 1 /\ last'.op = "Get" /\ last'.ret
        /\ ~Has(State, L1_GPU, last'.key)
        /\ ~Has(State, L2_RAM, last'.key)
        /\ Has(State, L3_DISK, last'.key)
        /\ GetCurrentSize(State, L2_RAM) + last'.data.len <= config.max_l2_size)
       => LET g == GetFromLevel(StateNext, last'.key, L2_RAM, now)
          IN /\ last'.key \in DOMAIN cache'[L2_RAM]
             /\ cache'[L2_RAM][last'.key].data = last'.data
             /\ g.hit /\ g.data = last'.data]_vars

\* C8 witness: Get answered from Slow, decompressed, and the key is now in
\* Medium with the decompressed bytes.
C8_Witness ==
    /\ last.op = "Get" /\ last.ret /\ last.level = L3_DISK
    /\ Has(State, L3_DISK, last.key)
    /\ cache[L3_DISK][last.key].compressed
    /\ cache[L3_DISK][last.key].data # last.data
    /\ Has(State, L2_RAM, last.key)
    /\ cache[L2_RAM][last.key].data = last.data

\* C9: while the worker runs, an entry of Medium or Slow whose last_access
\* age exceeds max_age is eventually read or rewritten, or else removed, and
\* then its key is in neither the level's map nor the level's LRU index.
ExpiredIn(level, key) ==
    key \in DOMAIN cache[level] /\ IsExpired(cache[level][key], now)

C9_ExpiredEventuallyRemoved ==
    \A level \in {L2_RAM, L3_DISK} : \A key \in Keys :
        ExpiredIn(level, key) ~>
            \/ key \in DOMAIN cache[level] /\ ~IsExpired(cache[level][key], now)
            \/ key \notin DOMAIN cache[level] /\ key \notin LruKeys(level)

\* C10: a background sweep never removes an entry from the Fast level's map.
C10_SweepSparesFast ==
    [][ReturnsNow("Sweep") => cache'[L1_GPU] = cache[L1_GPU]]_vars

\* C6 as stated: after the five Puts exactly the last two inserted entries
\* are resident in Fast and three evictions were counted.
C6_LastTwoInFast ==
    Len(order) = 5 =>
        /\ DOMAIN cache[L1_GPU] = {order[4], order[5]}
        /\ stats.evictions = 3

\* C6 amended: entries that no longer fit in Fast are demoted to Medium and
\* nothing is evicted: Fast keeps the first three inserted, Medium holds the
\* last two, and the eviction counter is 0.
C6_FirstThreeInFast ==
    LET n == Len(order)
        first == IF n < 3 THEN n ELSE 3
    IN /\ DOMAIN cache[L1_GPU] = {order[i] : i \in 1..first}
       /\ DOMAIN cache[L2_RAM] = {order[i] : i \in (first + 1)..n}
       /\ DOMAIN cache[L3_DISK] = {}
       /\ \A i \in 1..n : cache[IF i <= 3 THEN L1_GPU ELSE L2_RAM][order[i]].data
                             = ScenarioData(order[i])
       /\ stats.evictions = 0

\* C6 witness: all five entries have been put, and Fast holds 900 bytes.
C6_Witness ==
    /\ Len(order) = 5
    /\ last.op = "Put" /\ last.ret /\ last.level = L2_RAM
    /\ GetCurrentSize(State, L1_GPU) = 900

\* C11: a Put that targets Slow and whose file cannot be saved returns false
\* and leaves the maps, the LRU indices, the files and the counters as they
\* were when it was called.
C11_FailedSlowPutAtomic ==
    AllIdle =>
        \A key \in Keys, data \in Payloads, level \in Levels, compressOk \in BOOLEAN :
            LET r == Put(State, key, data, level, now, compressOk, FALSE)
            IN (r.level = L3_DISK /\ r.returns) => (~r.ret /\ r.S = State)

\* The step is a whole Remove(key) call of a caller.
RemoveStep(key) ==
    /\ ops' = ops + 1 /\ pc' = pc
    /\ last'.op = "Remove" /\ last'.key = key

LruKeysNext(level) == {lru'[level][i] : i \in 1..Len(lru'[level])}

\* C12: Remove(K) for a key no level holds returns false and changes no
\* counter, map, LRU index or file; a Remove(K) that follows a Remove(K)
\* returns false and changes nothing.
C12_RemoveAbsentNoOp ==
    [][\A key \in Keys :
         (RemoveStep(key)
            /\ \/ \A level \in Levels : ~Has(State, level, key)
               \/ last.op = "Remove" /\ last.key = key)
         => (~last'.ret /\ StateNext = State)]_vars

\* C12 witness: Remove of an absent key has returned false while another
\* key is stored.
C12_Witness ==
    /\ last.op = "Remove" /\ ~last.ret
    /\ \A level \in Levels : ~Has(State, level, last.key)
    /\ \E level \in Levels : DOMAIN cache[level] # {}
    /\ stats.entry_count > 0

C15_TotalSizeMatches ==
    AllIdle =>
        stats.total_size = GetCurrentSize(State, L1_GPU) + GetCurrentSize(State, L2_RAM)
                              + GetCurrentSize(State, L3_DISK)

\* C16: when no call is running, stats.entry_count is the number of entries
\* held across the three level maps, a key held by two levels counted twice.
C16_EntryCountMatches ==
    AllIdle =>
        stats.entry_count = Cardinality(DOMAIN cache[L1_GPU]) + Cardinality(DOMAIN cache[L2_RAM])
                               + Cardinality(DOMAIN cache[L3_DISK])

\* The step is a whole Clear() call of a caller.
ClearStep ==
    /\ ops' = ops + 1 /\ pc' = pc
    /\ last'.op = "Clear"

\* C17: when Clear returns, the three maps and the three LRU indices are
\* empty, total_size and entry_count are 0, the cache directory holds no
\* file, and Get of any key misses.
C17_ClearEmptiesAll ==
    [][ClearStep =>
         /\ \A level \in Levels : cache'[level] = EmptyMap /\ lru'[level] = <<>>
         /\ stats'.total_size = 0 /\ stats'.entry_count = 0
         /\ files' = EmptyMap
         /\ \A key \in Keys : ~Get(StateNext, key, now).ret]_vars

\* The step is a whole Get call of a caller.
GetStep ==
    /\ ops' = ops + 1 /\ pc' = pc
    /\ last'.op = "Get"

\* C14: a caller's Get that returns true adds one to hits and leaves misses,
\* one that returns false adds one to misses and leaves hits, and no other
\* step (Put, Remove, Clear, Prefetch and its thread, promotion, eviction)
\* changes either; so hits and misses count the callers' Gets by result.
C14_HitMissAccounting ==
    [][IF GetStep
          THEN /\ last'.ret => stats'.hits = stats.hits + 1 /\ stats'.misses = stats.misses
               /\ ~last'.ret => stats'.misses = stats.misses + 1 /\ stats'.hits = stats.hits
          ELSE stats'.hits = stats.hits /\ stats'.misses = stats.misses]_vars

\* C19: Prefetch without a loader changes nothing and starts nothing; with
\* one, the thread calls the loader for a key only after Get(key) missed
\* and skips the key after a hit; bytes the loader returns are non-empty
\* and go to Put(key, bytes) with preferred level Medium; no bytes or an
\* exception store nothing; and after any of these, and after a Put
\* whatever its result, the thread goes on with the rest of the batch.
C19_PrefetchContract ==
    [][/\ (ops' = ops + 1 /\ pc' = pc /\ last'.op = "Prefetch" /\ ~prefetch.callback)
            => (StateNext = State /\ prefetch' = prefetch)
       /\ (prefetch.pc = "get" /\ prefetch' # prefetch /\ prefetch.keys # <<>>)
            => IF Get(State, Head(prefetch.keys), now).ret
                  THEN prefetch'.pc = "get" /\ prefetch'.keys = Tail(prefetch.keys)
                  ELSE prefetch'.pc = "load" /\ prefetch'.keys = prefetch.keys
       /\ (prefetch.pc = "load" /\ prefetch'.pc = "put")
            => (prefetch'.data.len > 0 /\ StateNext = State)
       /\ (prefetch.pc = "load" /\ prefetch'.pc # "load" /\ prefetch'.pc # "put")
            => /\ StateNext = State
               /\ prefetch'.pc = "get" /\ prefetch'.keys = Tail(prefetch.keys)
       /\ (prefetch.pc = "put" /\ prefetch'.pc # "put")
            => /\ loc'["t2"].key = Head(prefetch.keys)
               /\ loc'["t2"].data = prefetch.data
               /\ loc'["t2"].preferred_level = L2_RAM
               /\ pc'["t2"] = "put_loop"
       /\ (prefetch.pc = "put_wait" /\ prefetch'.pc # "put_wait")
            => (prefetch'.pc = "get" /\ prefetch'.keys = Tail(prefetch.keys))]_vars

\* C19 witness: the loader threw for the first key of a batch, and the
\* thread has gone on to store the loader's bytes for the second key.
C19_Witness ==
    /\ prefetch.pc = "done"
    /\ prefetch.results = <<"throws", "put">>
    /\ last.op = "Put" /\ last.ret /\ last.key = "a" /\ last.level = L2_RAM
    /\ Has(State, L2_RAM, "a") /\ cache[L2_RAM]["a"].data = last.data
    /\ stats.misses = 2

\* The thread's next operation is a lock that cannot return now.
Blocked(t) ==
    /\ prog[t] # <<>>
    /\ Head(prog[t]).op = "lock"
    /\ ~CanLock(t, Head(prog[t]).m)

TierMutexesHeld(t) == {m \in TierMutexes : Holds(t, m)}

\* C18: no thread holds two of the three level mutexes at once, and there is
\* no set of threads each of which waits for a mutex that a thread of the
\* set holds.
C18_LockDiscipline ==
    /\ \A t \in LockThreads : Cardinality(TierMutexesHeld(t)) <= 1
    /\ \A W \in (SUBSET LockThreads) \ {{}} :
          \E t \in W : ~(Blocked(t) /\ \E u \in W : Holds(u, Head(prog[t]).m))

\* C18 witness: a thread inside Remove or Put holds main_mutex_ and a level's
\* mutex while a second thread waits for that level's mutex and a third
\* waits for main_mutex_.
C18_Witness ==
    \E t, u, v \in LockThreads :
        /\ Holds(t, main_mutex_)
        /\ \E m \in TierMutexes :
              Holds(t, m) /\ Blocked(u) /\ Head(prog[u]).m = m
        /\ Blocked(v) /\ Head(prog[v]).m = main_mutex_

\* The worker's loop: sleep, scan Medium, scan Slow, remove, sleep again;
\* from sleep it ends.
WorkerCycle ==
    {<<"sleep", "scan_l2">>, <<"scan_l2", "scan_l3">>, <<"scan_l3", "remove">>,
     <<"remove", "sleep">>, <<"sleep", "stopped">>}

\* C20: the worker alternates scanning and sleeping while
\* background_running_ is set; once it is cleared the worker starts no new
\* scan, it eventually terminates, and StopBackgroundTasks returns only
\* after the worker has terminated.
C20_WorkerLifecycle ==
    /\ [][/\ bg'.pc # bg.pc => <<bg.pc, bg'.pc>> \in WorkerCycle
          /\ (bg.pc = "sleep" /\ bg'.pc = "scan_l2") => background_running
          /\ (bg.pc = "sleep" /\ bg'.pc = "stopped") => ~background_running
          /\ (pc["t1"] = "stop_join" /\ pc'["t1"] # "stop_join") => bg.pc = "stopped"]_vars
    /\ (~background_running) ~> (bg.pc = "stopped")

\* C21: an eviction step of Put on its target level leaves the maps and the
\* LRU indices of the other two levels unchanged.
C21_EvictionConfined ==
    [][stats'.evictions # stats.evictions =>
         \A other \in Levels \ {loc[main_mutex].target_level} :
            cache'[other] = cache[other] /\ lru'[other] = lru[other]]_vars

\* C22: when no call is running, one eviction step on a level that holds an
\* entry removes exactly the entry at the least recently used end of the
\* level's index and adds one to evictions; on an empty level it changes
\* nothing.
C22_EvictionStepProgress ==
    AllIdle =>
        \A level \in Levels :
            LET S == EvictLRU(State, level)
                lru_key == lru[level][Len(lru[level])]
            IN IF DOMAIN cache[level] = {}
                  THEN S = State
                  ELSE /\ lru[level] # <<>>
                       /\ DOMAIN S.cache[level] = (DOMAIN cache[level]) \ {lru_key}
                       /\ lru_key \in DOMAIN cache[level]
                       /\ S.stats.evictions = stats.evictions + 1

\* The calls of Spec with L1 one byte smaller, so that a promotion can fill
\* L1 exactly.
SpecPromotion == InitPromotion /\ [][Next]_vars

\* C23: a Get of a key that is absent from L1 and present in L2 puts the
\* entry's bytes into L1 exactly when L1's current size plus the payload size
\* is at most max_l1_size, removes no entry of any level and counts no
\* eviction, and leaves the L2 entry in place with last_access = now and
\* access_count one higher; after a promotion L1 and L2 hold equal bytes.
C23_PromotionIsCopy ==
    [][(GetStep /\ last'.key \notin DOMAIN cache[L1_GPU]
                /\ last'.key \in DOMAIN cache[L2_RAM]) =>
         LET key == last'.key
             e == cache[L2_RAM][key]
             fits == GetCurrentSize(State, L1_GPU) + e.data.len <= config.max_l1_size
         IN /\ key \in DOMAIN cache'[L1_GPU] <=> fits
            /\ DOMAIN cache'[L1_GPU] \ {key} = DOMAIN cache[L1_GPU]
            /\ \A k \in DOMAIN cache[L1_GPU] : cache'[L1_GPU][k] = cache[L1_GPU][k]
            /\ DOMAIN cache'[L2_RAM] = DOMAIN cache[L2_RAM]
            /\ \A k \in DOMAIN cache[L2_RAM] \ {key} : cache'[L2_RAM][k] = cache[L2_RAM][k]
            /\ cache'[L3_DISK] = cache[L3_DISK]
            /\ stats'.evictions = stats.evictions
            /\ cache'[L2_RAM][key] =
                  [e EXCEPT !.last_access = now, !.access_count = e.access_count + 1]
            /\ fits => cache'[L1_GPU][key].data = e.data /\ last'.data = e.data]_vars

\* A Get has just promoted a key into an L1 that the copy fills exactly, and
\* the L2 entry has been read twice since it was put.
C23_Witness ==
    /\ last.op = "Get" /\ last.ret /\ last.level = L2_RAM
    /\ last.key \in DOMAIN cache[L1_GPU] /\ last.key \in DOMAIN cache[L2_RAM]
    /\ cache[L1_GPU][last.key].data = cache[L2_RAM][last.key].data
    /\ cache[L2_RAM][last.key].access_count = 2
    /\ GetCurrentSize(State, L1_GPU) = config.max_l1_size

\* C24: an entry of any level has compressed = TRUE only if it is in L3 and
\* its stored bytes, and its file's, are the output of a successful Compress
\* (a fallback to the original bytes is stored with compressed = FALSE).
C24_CompressedFlagTruthful ==
    \A level \in Levels : \A key \in DOMAIN cache[level] :
        LET entry == cache[level][key]
        IN entry.compressed =>
              /\ level = L3_DISK
              /\ entry.data.wraps # <<>>
              /\ GetFilePath(key) \in DOMAIN files
              /\ files[GetFilePath(key)] = entry.data

----------------------------------------------------------------------------
\* Evict(target_size), called by the owner between other calls.

\* Arguments of Evict: everything has to go, or one byte may stay.
EvictTargets == {0, 1}

\* Evict, lines 346-354: the level the next turn of the loop evicts from
\* (the first one whose map is not empty).
EvictFrom(S) ==
    IF DOMAIN S.cache[L1_GPU] # {} THEN L1_GPU
    ELSE IF DOMAIN S.cache[L2_RAM] # {} THEN L2_RAM
    ELSE L3_DISK

\* One level's map loses entries only once the faster levels' maps are
\* empty.
InOrder(S, T) ==
    \A level \in Levels :
        DOMAIN T.cache[level] # DOMAIN S.cache[level] =>
            \A faster \in Levels : faster < level => DOMAIN S.cache[faster] = {}

\* FragmentCache::Evict: the state it leaves, whether it returns (a turn
\* of the loop that changes nothing is followed by the same turn for ever)
\* and whether every turn kept the order of the levels.
RECURSIVE Evict(_, _)
Evict(S, target_size) ==
    IF ~(S.stats.total_size > target_size) \/ \A level \in Levels : DOMAIN S.cache[level] = {}
       THEN [S |-> S, returns |-> TRUE, ordered |-> TRUE]
       ELSE LET T == EvictLRU(S, EvictFrom(S))
            IN IF T = S
                  THEN [S |-> S, returns |-> FALSE, ordered |-> TRUE]
                  ELSE LET r == Evict(T, target_size)
                       IN [r EXCEPT !.ordered = @ /\ InOrder(S, T)]

EvictCall(t, target_size) ==
    /\ CanStart(t)
    /\ main_mutex = NoThread
    /\ LET r == Evict(State, target_size)
       IN /\ Commit(r.S)
          /\ last' = [op |-> "EvictTo", key |-> "", data |-> NoData,
                      ret |-> r.returns /\ r.ordered, level |-> L1_GPU, at |-> target_size]
          /\ pc' = [pc EXCEPT ![t] = IF r.returns THEN "idle" ELSE "evict_loop"]
    /\ ops' = ops + 1
    /\ UNCHANGED <<config, index_vars, other_vars, now, main_mutex, loc, bg, order>>

NextEvict ==
    \/ Next
    \/ \E target_size \in EvictTargets : EvictCall("t1", target_size)

SpecEvict == Init /\ [][NextEvict]_vars

\* The step is a call of Evict (a Put that begins also counts as a call, and
\* moves its thread into Put's loop).
EvictStep ==
    /\ ops' = ops + 1 /\ last'.op = "EvictTo"
    /\ \A t \in Threads : pc'[t] = pc[t] \/ pc'[t] = "evict_loop"

\* C25: Evict(target_size) returns, and then total_size <= target_size or
\* all three maps are empty; it takes entries from L2 only once L1 is empty
\* and from L3 only once L1 and L2 are empty; and it changes nothing when
\* total_size is at or below the target already.
C25_EvictPostcondition ==
    [][EvictStep =>
         /\ pc' = pc
         /\ last'.ret
         /\ \/ stats'.total_size <= last'.at
            \/ \A level \in Levels : DOMAIN cache'[level] = {}
         /\ stats.total_size <= last'.at => StateNext = State]_vars

\* Access, Remove and Clear on one LRUCache, in any order.
SpecIndex == Init /\ [][NextIndex]_vars

\* The keys of the list from a node to the tail sentinel, following next
\* for at most fuel nodes.
RECURSIVE ListFrom(_, _, _)
ListFrom(ix, node, fuel) ==
    IF node = tail \/ node = NoNode \/ fuel = 0
       THEN <<>>
       ELSE <<node[2]>> \o ListFrom(ix, ix.next[node], fuel - 1)

Tracked == {key \in IndexKeys : accessed.at[key] > 0}

\* The list of the index holds every tracked key once, newest Access first,
\* in both directions, and cache_map holds the same keys.
IndexOrdered ==
    LET keys == ListFrom(index, index.next[head], Cardinality(Nodes))
    IN /\ index.cache_map = Tracked
       /\ Len(keys) = Cardinality(Tracked)
       /\ {keys[i] : i \in 1..Len(keys)} = Tracked
       /\ \A i \in 1..Len(keys) : \A j \in 1..Len(keys) :
              i < j => accessed.at[keys[i]] > accessed.at[keys[j]]
       /\ \A i \in 1..Len(keys) :
              index.prev[Node(keys[i])] = IF i = 1 THEN head ELSE Node(keys[i - 1])
       /\ index.prev[tail] = IF keys = <<>> THEN head ELSE Node(keys[Len(keys)])

\* C26: after any Access, Remove and Clear calls on one LRUCache, the index
\* holds each key at most once, Size() is the number of keys accessed and
\* not removed or cleared since, and GetLRU() is the tracked key whose last
\* Access is the oldest; an Access of a tracked key puts it at the most
\* recently used end and keeps Size(); a Remove of an untracked key changes
\* nothing.
C26_LruIndexOrdering ==
    [][/\ IndexOrdered'
       /\ ListSize(index') = Cardinality(Tracked')
       /\ Tracked' # {} =>
             /\ ListGetLRU(index') \in Tracked'
             /\ \A key \in Tracked' :
                   accessed'.at[ListGetLRU(index')] <= accessed'.at[key]
       /\ accessed'.op = "Access" =>
             /\ index'.next[head] = Node(accessed'.key)
             /\ accessed'.key \in Tracked => ListSize(index') = ListSize(index)
             /\ accessed'.key \notin Tracked => ListSize(index') = ListSize(index) + 1
       /\ (accessed'.op = "Remove" /\ accessed'.key \notin Tracked) => index' = index
      ]_index_vars

\* "a" was accessed, then "b", then "a" again: "b" is now the least recently
\* used of the two keys.
C26_Witness ==
    /\ accessed.op = "Access" /\ accessed.key = "a"
    /\ accessed.at["a"] = 3 /\ accessed.at["b"] = 2
    /\ ListSize(index) = 2
    /\ ListGetLRU(index) = "b"

\* The step is the worker's Remove of a key it has collected.
SweepRemoveStep ==
    /\ bg.pc = "remove" /\ bg.expired_keys # <<>>
    /\ bg'.expired_keys = Tail(bg.expired_keys)

\* C27: every entry that the worker's sweep removes is expired at the moment
\* of its removal (now - last_access > max_age); so an entry read or written
\* again after its key was collected is not removed by that sweep.
C27_SweepRemovesOnlyStale ==
    [][SweepRemoveStep =>
         \A level \in Levels : \A key \in DOMAIN cache[level] :
            key \notin DOMAIN cache'[level] => IsExpired(cache[level][key], now)]_vars

\* C28: with Gets and Puts of two threads interleaved, the bytes stored in
\* L1 never exceed max_l1_size and the bytes stored in L2 never exceed
\* max_l2_size.
C28_FastMediumWithinCaps ==
    /\ GetCurrentSize(State, L1_GPU) <= config.max_l1_size
    /\ GetCurrentSize(State, L2_RAM) <= config.max_l2_size

\* C29: in every interleaving of Get, Put, Remove and Clear, total_size and
\* entry_count are never decremented below zero (a negative value here is a
\* wrapped size_t in the code).
C29_CountersNeverWrap ==
    /\ stats.total_size >= 0
    /\ stats.entry_count >= 0

\* The step is the prefetch thread's Get of its next key.
PrefetchThreadGet ==
    prefetch.pc = "get" /\ prefetch.keys # <<>> /\ prefetch' # prefetch

\* The step is one of the prefetch thread's Put: its entry, a turn of its
\* loop that evicts, or its write.
PrefetchThreadPut ==
    \/ pc'["t2"] # pc["t2"]
    \/ pc["t2"] = "put_loop" /\ StateNext # State

\* C30: once the destructor has completed (StopBackgroundTasks has returned
\* on the owner's thread), neither the worker nor the thread of an earlier
\* Prefetch performs a Get, Put or Remove on the cache.
C30_NoUseAfterDestruction ==
    [][pc["t1"] = "stopped" =>
         ~(PrefetchThreadGet \/ PrefetchThreadPut \/ SweepRemoveStep)]_vars

====
